---- MODULE Spec2Model ----
(***************************************************************************)
(* Model of the probability engine of the NBA line predictor:             *)
(* backend/hypothetical.py (line sweep, v4) and                           *)
(* backend/tempCodeRunnerFile.py (single-line predictor).                 *)
(*                                                                         *)
(* Number representation.  Stat quantities (sample values, means, std,    *)
(* lines) are integers in tenths (Q = 10).  Probabilities and             *)
(* multiplicative factors are fixed-point integers in thousandths         *)
(* (Scale = 1000).  The float NaN produced by numpy is the sentinel NaN,  *)
(* an integer no finite quantity of the model reaches; a key missing from *)
(* a fetched aggregate is the sentinel Absent.                            *)
(***************************************************************************)
EXTENDS Integers, Sequences, FiniteSets, TLC

Q == 10
Scale == 1000
NaN == -1000000000
Absent == -1
IsNaN(x) == x = NaN
\* an exception raised by Python (ZeroDivisionError on a float division)
Raise == -2000000000

\* hypothetical.py:29-40
W_baseline == 350
W_recent == 300
W_h2h == 200
W_injury == 150
REST_b2b == 900
REST_short == 980
REST_normal == 1020
MIN_EMPIRICAL == 10
H2H_GAMES == 5
RECENT_GAMES == 5
LG_OFF == 110
LG_DEF == 110
LG_PACE == 100
\* INJ_WEIGHT = 0.01, as a divisor
INJ_DIV == 100

\* tempCodeRunnerFile.py:43-48
RECENT_LOOKBACK == 5

(***************************************************************************)
(* Bounds of the model                                                     *)
(***************************************************************************)
MaxShort == 2
MaxWidth == 2
MaxInjured == 2

ShortVals == {18, 20, 22}
LongVals == {19, 20, 21}

\* Python float arithmetic, NaN-propagating, in fixed point
Mul(p, f) == IF p = Raise \/ f = Raise THEN Raise
             ELSE IF IsNaN(p) \/ IsNaN(f) THEN NaN ELSE (p * f) \div Scale

Clamp_noupper(p) == IF p = Raise THEN Raise ELSE IF IsNaN(p) THEN Scale ELSE IF p < 0 THEN 0 ELSE p

\* max(0, min(1, p)): min(1, nan) keeps 1 since nan < 1 is False
Clamp(p) == IF p = Raise THEN Raise ELSE IF IsNaN(p) THEN Scale
            ELSE IF p > Scale THEN Scale ELSE IF p < 0 THEN 0 ELSE p

RECURSIVE SumSeq(_)
SumSeq(s) == IF s = <<>> THEN 0 ELSE Head(s) + SumSeq(Tail(s))

SqSeq(s) == [i \in 1..Len(s) |-> s[i] * s[i]]

RECURSIVE ISqrtUp(_, _)
ISqrtUp(n, r) == IF (r + 1) * (r + 1) > n THEN r ELSE ISqrtUp(n, r + 1)
\* floor(sqrt(n))
ISqrt(n) == ISqrtUp(n, 0)

\* Phi(k/10) * 1000, k = 0..40 (math.erf)
CdfTab == <<500, 540, 579, 618, 655, 691, 726, 758, 788, 816, 841, 864, 885,
            903, 919, 933, 945, 955, 964, 971, 977, 982, 986, 989, 992, 994,
            995, 997, 997, 998, 999, 999, 999, 1000, 1000, 1000, 1000, 1000,
            1000, 1000, 1000>>

\* normal_cdf(x) = 0.5 * (1 + erf(x / sqrt 2)), x in tenths
normal_cdf(z) == IF IsNaN(z) THEN NaN
                 ELSE IF z >= 0 THEN (IF z > 40 THEN Scale ELSE CdfTab[z + 1])
                 ELSE (IF -z > 40 THEN 0 ELSE Scale - CdfTab[-z + 1])

CountIf_ge(vals, line, ou) ==
    Cardinality({i \in 1..Len(vals) :
                    IF ou = "O" THEN vals[i] * Q >= line ELSE vals[i] * Q <= line})

\* empirical_prob: (arr > line).sum() / len(arr), vals raw ints, line in tenths
CountIf(vals, line, ou) ==
    Cardinality({i \in 1..Len(vals) :
                    IF ou = "O" THEN vals[i] * Q > line ELSE vals[i] * Q < line})
empirical_prob_ge(vals, line, ou) ==
    (Cardinality({i \in 1..Len(vals) :
                    IF ou = "O" THEN vals[i] * Q >= line ELSE vals[i] * Q <= line})
     * Scale) \div Len(vals)

empirical_prob(vals, line, ou) == (CountIf(vals, line, ou) * Scale) \div Len(vals)

gauss_prob_ge(mean, std, line, ou) ==
    IF ~IsNaN(std) /\ std <= 0
    THEN (IF (ou = "O" /\ mean >= line) \/ (ou = "U" /\ mean <= line) THEN Scale ELSE 0)
    ELSE LET z == IF IsNaN(std) THEN NaN ELSE ((line - mean) * Q) \div std
         IN IF ou = "O" THEN (IF IsNaN(z) THEN NaN ELSE Scale - normal_cdf(z))
            ELSE normal_cdf(z)

gauss_prob_zflip(mean, std, line, ou) ==
    IF ~IsNaN(std) /\ std <= 0
    THEN (IF (ou = "O" /\ mean > line) \/ (ou = "U" /\ mean < line) THEN Scale ELSE 0)
    ELSE LET z == IF IsNaN(std) THEN NaN ELSE ((line - mean) * Q) \div std
             zo == IF IsNaN(std) THEN NaN ELSE ((mean - line) * Q) \div std
         IN IF ou = "O" THEN (IF IsNaN(zo) THEN NaN ELSE Scale - normal_cdf(zo))
            ELSE normal_cdf(z)

\* gauss_prob: mean, std, line in tenths; std may be NaN (comparisons False)
gauss_prob(mean, std, line, ou) ==
    IF ~IsNaN(std) /\ std <= 0
    THEN (IF (ou = "O" /\ mean > line) \/ (ou = "U" /\ mean < line) THEN Scale ELSE 0)
    ELSE LET z == IF IsNaN(std) THEN NaN ELSE ((line - mean) * Q) \div std
         IN IF ou = "O" THEN (IF IsNaN(z) THEN NaN ELSE Scale - normal_cdf(z))
            ELSE normal_cdf(z)

calc_prob_lt(mean, std, line, ou) ==
    IF std < 0
    THEN (IF (ou = "O" /\ mean > line) \/ (ou = "U" /\ mean < line) THEN Scale ELSE 0)
    ELSE IF std = 0 THEN Raise
    ELSE LET z == ((line - mean) * Q) \div std
         IN IF ou = "O" THEN Scale - normal_cdf(z) ELSE normal_cdf(z)

\* tempCodeRunnerFile.calc_prob (std is a Python float, never NaN there;
\* z = (line - mean) / std raises ZeroDivisionError for std == 0.0)
calc_prob(mean, std, line, ou) ==
    IF std <= 0
    THEN (IF (ou = "O" /\ mean > line) \/ (ou = "U" /\ mean < line) THEN Scale ELSE 0)
    ELSE IF std = 0 THEN Raise
    ELSE LET z == ((line - mean) * Q) \div std
         IN IF ou = "O" THEN Scale - normal_cdf(z) ELSE normal_cdf(z)



\* dict.get(key, default) for a fetched aggregate that may lack the key
Get(v, d) == IF v = Absent THEN d ELSE v

(***************************************************************************)
(* Context multipliers                                                     *)
(***************************************************************************)

get_rest_factor_le(kind, days) ==
    IF kind \in {"none", "empty", "nodate"} THEN REST_normal
    ELSE IF kind = "unparseable" THEN REST_normal
    ELSE IF days = 0 THEN REST_b2b
    ELSE IF days <= 2 THEN REST_short
    ELSE REST_normal

\* get_rest_factor: recent = fetcher.get_recent_games_stats(pid, 1) or [];
\* kind describes that list, days = (now - last).days
get_rest_factor(kind, days) ==
    IF kind \in {"none", "empty", "nodate"} THEN REST_normal
    ELSE IF kind = "unparseable" THEN REST_normal
    ELSE IF days = 0 THEN REST_b2b
    ELSE IF days = 1 THEN REST_short
    ELSE REST_normal

\* get_rest_factor as called by main: the one-game log is fetched with the
\* default season type "Regular Season"; reg is the day of its last game
\* (Absent: none), now the day of datetime.now(); days = (now - last).days
get_rest_factor_clock(reg, now) ==
    IF reg = Absent THEN get_rest_factor("empty", 0)
    ELSE get_rest_factor("date", now - reg)

\* One injured player: res = "fail" (no NBA.com id, ValueError), "nokey"
\* (advanced aggregate without USG_PCT, .get gives 0.0) or "usg" (its USG_PCT).
Usg(e) == IF e.res = "nokey" THEN 0 ELSE e.usg
IsFail(e) == e.res = "fail"

\* Sum over the try-blocks of the loop: a failing resolution or a tuple
\* unpacking of the wrong arity raises, is caught, and adds nothing.
\* got = arity of the tuple returned by the stats helper, want = arity of
\* the unpacking target.
RECURSIVE InjSum(_, _, _)
InjSum(l, got, want) ==
    IF l = <<>> THEN 0
    ELSE (IF IsFail(Head(l)) \/ got # want THEN 0 ELSE Usg(Head(l)))
         + InjSum(Tail(l), got, want)

\* get_player_stats returns (pid, base, adv, hustle)
get_player_stats_arity == 4
\* get_player_advanced returns (base, adv, hustle)
get_player_advanced_arity == 3

\* hypothetical.compute_injury_usage_impact: `_, adv = get_player_stats(...)`
compute_injury_usage_impact(inj) ==
    Scale + (InjSum(inj, get_player_stats_arity, 2) * Scale) \div INJ_DIV

compute_injury_usage_impact_tcr_neg(inj) ==
    Scale - (InjSum(inj, get_player_advanced_arity, 3) * Scale) \div INJ_DIV

\* tempCodeRunnerFile.compute_injury_usage_impact: `_, adv, _ = get_player_advanced(...)`
compute_injury_usage_impact_tcr(inj) ==
    Scale + (InjSum(inj, get_player_advanced_arity, 3) * Scale) \div INJ_DIV

(***************************************************************************)
(* Line sweep                                                              *)
(***************************************************************************)

CeilDiv(a, b) == -((-a) \div b)

\* np.arange(line_min, line_max + 1): ceil((stop - start) / 1) points
Arange(lmin, lmax) ==
    LET n == CeilDiv(lmax + Q - lmin, Q)
    IN [i \in 1..(IF n > 0 THEN n ELSE 0) |-> lmin + Q * (i - 1)]

RawProb_gt(mean, std, hist, line, ou) ==
    IF Len(hist) > MIN_EMPIRICAL THEN empirical_prob(hist, line, ou)
    ELSE gauss_prob(mean, std, line, ou)

RawProb(mean, std, hist, line, ou) ==
    IF Len(hist) >= MIN_EMPIRICAL THEN empirical_prob(hist, line, ou)
    ELSE gauss_prob(mean, std, line, ou)

Factors(off, pace, def) ==
    <<(Get(off, LG_OFF) * Scale) \div LG_OFF,
      (Get(pace, LG_PACE) * Scale) \div LG_PACE,
      (LG_DEF * Scale) \div Get(def, LG_DEF)>>

FinalProb_norest(praw, off, pace, def, inj, rest, home) ==
    LET f == Factors(off, pace, def)
    IN Clamp(Mul(Mul(Mul(Mul(Mul(praw, f[1]), f[2]), f[3]), inj), home))

FinalProb(praw, off, pace, def, inj, rest, home) ==
    LET f == Factors(off, pace, def)
    IN Clamp(Mul(Mul(Mul(Mul(Mul(Mul(praw, f[1]), f[2]), f[3]), inj), rest), home))

\* tempCodeRunnerFile.main steps 9-12: prob *= off * pace; prob *= def; clamp
SingleFinal(praw, off, pace, def) ==
    LET f == Factors(off, pace, def)
    IN Clamp(Mul(Mul(praw, Mul(f[1], f[2])), f[3]))

\* sorted(results, key=lambda x: x[1], reverse=rev): stable insertion sort
Before(a, b, rev) == IF rev THEN a[2] > b[2] ELSE a[2] < b[2]
RECURSIVE Insert(_, _, _)
Insert(e, s, rev) ==
    IF s = <<>> THEN <<e>>
    ELSE IF Before(e, Head(s), rev) THEN <<e>> \o s
    ELSE <<Head(s)>> \o Insert(e, Tail(s), rev)
RECURSIVE SortedBy(_, _, _)
SortedBy(s, acc, rev) ==
    IF s = <<>> THEN acc ELSE SortedBy(Tail(s), Insert(Head(s), acc, rev), rev)

generate_probabilities(mean, std, hist, off, pace, def, inj, rest, home, ou, lmin, lmax) ==
    LET lines == Arange(lmin, lmax)
        results == [i \in 1..Len(lines) |->
                      <<lines[i],
                        FinalProb(RawProb(mean, std, hist, lines[i], ou),
                                  off, pace, def, inj, rest, home)>>]
    IN SortedBy(results, <<>>, ou = "O")

(***************************************************************************)
(* Sample statistics                                                       *)
(***************************************************************************)

\* np.mean(vals) in tenths
MeanT(vals) == (SumSeq(vals) * Q) \div Len(vals)
StdDdof1_n1zero(vals) ==
    LET n == Len(vals)
    IN IF n = 1 THEN 0
       ELSE ISqrt((Q * Q * (n * SumSeq(SqSeq(vals)) - SumSeq(vals) * SumSeq(vals)))
                  \div (n * (n - 1)))

\* np.std(vals, ddof=1) in tenths: NaN for one value
StdDdof1(vals) ==
    LET n == Len(vals)
    IN IF n = 1 THEN NaN
       ELSE ISqrt((Q * Q * (n * SumSeq(SqSeq(vals)) - SumSeq(vals) * SumSeq(vals)))
                  \div (n * (n - 1)))

\* hypothetical.main: (np.mean, np.std ddof=1) if hist_vals else (0, 0)
RecentStats(vals) == IF vals = <<>> THEN <<0, 0>> ELSE <<MeanT(vals), StdDdof1(vals)>>

\* tempCodeRunnerFile.compute_recent_distribution (vals = games[:5])
compute_recent_distribution(vals) ==
    IF vals = <<>> THEN <<0, 0>>
    ELSE <<MeanT(vals), IF Len(vals) > 1 THEN StdDdof1(vals) ELSE 0>>


(***************************************************************************)
(* Signal blender                                                          *)
(***************************************************************************)

blend_mean_oldinj(baseline, recent, h2h, inj) ==
    (W_baseline * baseline + W_recent * recent + W_h2h * h2h
       + (W_injury - 50) * ((baseline * inj) \div Scale)) \div Scale

blend_mean_swap(baseline, recent, h2h, inj) ==
    (W_baseline * baseline + W_h2h * recent + W_recent * h2h
       + W_injury * ((baseline * inj) \div Scale)) \div Scale

\* hypothetical.main: WEIGHTS-weighted blend, all quantities in tenths
blend_mean(baseline, recent, h2h, inj) ==
    (W_baseline * baseline + W_recent * recent + W_h2h * h2h
       + W_injury * ((baseline * inj) \div Scale)) \div Scale

\* tempCodeRunnerFile.main: 0.4 / 0.3 / 0.2 / 0.1 blend
blend_mean_tcr(baseline, recent, h2h, inj) ==
    (4 * baseline + 3 * recent + 2 * h2h + (baseline * inj) \div Scale) \div 10

(***************************************************************************)
(* IEEE-754 doubles in [2^-3, 2): the exact value M * 2^-56 as two limbs   *)
(* <<M \div 2^28, M % 2^28>>; addition rounds to 53 significant bits,     *)
(* ties to even.                                                           *)
(***************************************************************************)
Limb == 2^28
DQuantum(m) == IF m[1] >= Limb THEN 16 ELSE IF m[1] >= Limb \div 2 THEN 8
               ELSE IF m[1] >= Limb \div 4 THEN 4 ELSE IF m[1] >= Limb \div 8 THEN 2 ELSE 1
DRound(m) ==
    LET q == DQuantum(m)
        r == m[2] % q
        base == m[2] - r
        up == 2 * r > q \/ (2 * r = q /\ (base \div q) % 2 = 1)
        nl == IF up THEN base + q ELSE base
    IN IF nl = Limb THEN <<m[1] + 1, 0>> ELSE <<m[1], nl>>
DAdd(a, b) ==
    LET lo == a[2] + b[2]
    IN DRound(<<a[1] + b[1] + lo \div Limb, lo % Limb>>)

\* the float literals of WEIGHTS (hypothetical.py:29) and 1.0
D_baseline == <<93952409, 161061272>>
D_recent == <<80530636, 214748364>>
D_h2h == <<53687091, 53687092>>
D_injury == <<40265318, 107374182>>
D_one == <<268435456, 0>>

(***************************************************************************)
(* Game logs, stat selection and head-to-head (hypothetical.main 268-291)  *)
(***************************************************************************)

MaxLog == 2

LETTER_MAP == [c \in {"P", "R", "A"} |-> CASE c = "P" -> "PTS" [] c = "R" -> "REB" [] OTHER -> "AST"]

VALID_STATS_lax == {<<"P">>, <<"R">>, <<"A">>, <<"P", "R">>, <<"P", "A">>, <<"R", "A">>,
                    <<"P", "R", "A">>, <<"A", "P">>}

\* prompt_stat's accepted spellings, as letter sequences
VALID_STATS == {<<"P">>, <<"R">>, <<"A">>, <<"P", "R">>, <<"P", "A">>, <<"R", "A">>,
                <<"P", "R", "A">>}

\* sum(x[LETTER_MAP[c]] for c in stat_choice), missing keys count 0
RECURSIVE SumLetters(_, _)
SumLetters(x, sc) ==
    IF sc = <<>> THEN 0 ELSE Get(x[LETTER_MAP[Head(sc)]], 0) + SumLetters(x, Tail(sc))

\* NBA.com MATCHUP "<team> vs. <opp>" / "<team> @ <opp>": team tokens as characters
TokChars == [t \in {"LAL", "SAC", "SAS", "BOS", "MIA", "SA"} |->
               CASE t = "LAL" -> <<"L", "A", "L">>
                 [] t = "SAC" -> <<"S", "A", "C">>
                 [] t = "SAS" -> <<"S", "A", "S">>
                 [] t = "BOS" -> <<"B", "O", "S">>
                 [] t = "MIA" -> <<"M", "I", "A">>
                 [] OTHER -> <<"S", "A">>]
SubstrOf(a, t) == \E i \in 1..(Len(t) - Len(a) + 1) : SubSeq(t, i, i + Len(a) - 1) = a
\* `opp in g.get("MATCHUP", "")`: the separators hold no upper-case letters
InMatchup(ab, g) == SubstrOf(TokChars[ab], TokChars[g.team]) \/ SubstrOf(TokChars[ab], TokChars[g.opp])

\* get_recent_games_stats(pid, num_games=n): rows[:n] of the most-recent-first log
get_recent_games_stats(log, n) == SubSeq(log, 1, IF Len(log) < n THEN Len(log) ELSE n)

Take(sq, n) == SubSeq(sq, 1, IF Len(sq) < n THEN Len(sq) ELSE n)

HistVals(hist, sc) == [i \in 1..Len(hist) |-> SumLetters(hist[i], sc)]

\* [g for g in hist if opp in g["MATCHUP"]][:H2H_GAMES]
H2HGames(hist, opp) ==
    LET Test(g) == InMatchup(opp, g) IN Take(SelectSeq(hist, Test), H2H_GAMES)

\* tempCodeRunnerFile: the MATCHUP string "<team> vs. <opp>" as characters
MatchupChars(g) == TokChars[g.team] \o <<" ", "v", "s", ".", " ">> \o TokChars[g.opp]

\* compute_head_to_head's test: f" {opp_abbrev}" in g["MATCHUP"]
InMatchupTcr(ab, g) == SubstrOf(<<" ">> \o TokChars[ab], MatchupChars(g))

\* the h2h DataFrame columns, and their names as characters (dict keys)
Cols == {"PTS", "REB", "AST"}
ColChars(k) == CASE k = "PTS" -> <<"P", "T", "S">> [] k = "REB" -> <<"R", "E", "B">> [] OTHER -> <<"A", "S", "T">>

\* [g for g in games if f" {opp_abbrev}" in g["MATCHUP"]][:H2H_LOOKBACK_GAMES]
H2HGamesTcr(games, ab) ==
    LET Test(g) == InMatchupTcr(ab, g) IN Take(SelectSeq(games, Test), H2H_GAMES)

\* compute_head_to_head: {} without games, else df[["PTS","REB","AST"]].mean().to_dict()
compute_head_to_head(games, ab) ==
    LET h2h == H2HGamesTcr(games, ab)
    IN IF h2h = <<>> THEN [kc \in {} |-> 0]
       ELSE [kc \in {ColChars(k) : k \in Cols} |->
               LET k == CHOOSE c \in Cols : ColChars(c) = kc
               IN MeanT([i \in 1..Len(h2h) |-> h2h[i][k]])]

\* main step 8: h2h_means.get(stat_choice, baseline) if len(stat_choice)==1 else baseline
H2HMeanTcr(means, sc, baseline) ==
    IF Len(sc) = 1 THEN (IF sc \in DOMAIN means THEN means[sc] ELSE baseline) ELSE baseline

\* hypothetical.main lines 271-291: baseline, recent stats, h2h mean, blend
BlendOf(log, sc, base, opp, injl) ==
    LET baseline == SumLetters(base, sc)
        hist == get_recent_games_stats(log, RECENT_GAMES * 4)
        hv == HistVals(hist, sc)
        rs == RecentStats(hv)
        h2hv == HistVals(H2HGames(hist, opp), sc)
        h2h == IF h2hv = <<>> THEN baseline ELSE MeanT(h2hv)
        inj == compute_injury_usage_impact(injl)
    IN [baseline |-> baseline, hist_vals |-> hv, recent_mean |-> rs[1], recent_std |-> rs[2],
        h2h_games |-> H2HGames(hist, opp), h2h_vals |-> h2hv, h2h_mean |-> h2h, inj |-> inj,
        blend |-> blend_mean(baseline, rs[1], h2h, inj), std |-> rs[2]]

Game(team, o, pts) == [PTS |-> pts, REB |-> pts \div 5, AST |-> 2, team |-> team, opp |-> o]
PtsVs == [o \in {"BOS", "SAS", "SAC", "MIA"} |->
            CASE o = "BOS" -> 30 [] o = "SAS" -> 24 [] o = "SAC" -> 18 [] OTHER -> 20]
LogOpps == {"BOS", "SAS", "SAC"}
Teams == {"LAL", "SAC"}
OppAbbrevs == {"SA", "BOS"}
ShortLogs(team) ==
    {[i \in 1..Len(d) |-> Game(team, d[i], PtsVs[d[i]])] :
        d \in UNION {[1..n -> LogOpps \ {team}] : n \in 0..MaxLog}}
\* 4 * RECENT_GAMES older-than-the-rest games in front: first five differ
Pad(team) == [i \in 1..(4 * RECENT_GAMES) |-> Game(team, "MIA", IF i <= RECENT_GAMES THEN 20 ELSE 10)]
\* more head-to-head games than H2H_GAMES
ManyH2H(team) == [i \in 1..(H2H_GAMES + 1) |-> Game(team, "BOS", 30 - i)]
Logs(team) == ShortLogs(team) \cup {Pad(team) \o l : l \in ShortLogs(team)} \cup {ManyH2H(team)}

BaseRecs == {[PTS |-> 253, REB |-> 51, AST |-> 70], [PTS |-> Absent, REB |-> Absent, AST |-> Absent]}
\* the 50-game logs compute_head_to_head receives
H2HLogs == {<<>>, <<Game("LAL", "BOS", 30)>>, <<Game("LAL", "SAC", 18), Game("LAL", "BOS", 30)>>,
            <<Game("LAL", "SAS", 24)>>, <<Game("SAC", "BOS", 30)>>}
BlendInjuries == {<<>>, <<[res |-> "usg", usg |-> 25]>>}

(***************************************************************************)
(* Inputs the acquisition collaborators can supply                         *)
(***************************************************************************)

ShortSeqs == UNION {[1..n -> ShortVals] : n \in 0..MaxShort}

\* a sorted 19/20/21 sample of length n (any multiset of LongVals)
SortedSample(a, b, n) == [i \in 1..n |-> IF i <= a THEN 19 ELSE IF i <= a + b THEN 20 ELSE 21]
LongSeqs == {SortedSample(a, b, n) : n \in {MIN_EMPIRICAL - 1, MIN_EMPIRICAL},
                                     a \in 0..MIN_EMPIRICAL, b \in 0..MIN_EMPIRICAL}

SpecSample == <<10, 12, 14, 16, 18, 20, 22, 24, 26, 28>>

Hists == ShortSeqs \cup LongSeqs \cup {SpecSample}

Usgs == {0, 5, 25}
InjuredEntries == {[res |-> "fail", usg |-> 0], [res |-> "nokey", usg |-> 0]}
                  \cup {[res |-> "usg", usg |-> u] : u \in Usgs}
InjuryLists == UNION {[1..n -> InjuredEntries] : n \in 0..MaxInjured}

RestKinds == {"none", "empty", "nodate", "unparseable", "date"}
Days == 0..3

\* player / opponent advanced aggregates and the rest/injury context
Contexts ==
  { [off |-> Absent, pace |-> Absent, def |-> Absent, inj |-> <<>>, rk |-> "none", days |-> 0],
    [off |-> 120, pace |-> 110, def |-> 100, inj |-> <<[res |-> "usg", usg |-> 25], [res |-> "fail", usg |-> 0]>>, rk |-> "date", days |-> 3],
    [off |-> 100, pace |-> 90, def |-> 120, inj |-> <<[res |-> "usg", usg |-> 5]>>, rk |-> "date", days |-> 0] }

Means == {195, 205}
LineMins == {200, 205}
LineMaxs(lmin) == {lmin + 5 * k : k \in -2..(2 * MaxWidth)}
Directions == {"O", "U"}
Baselines == {180, 220}
Lines == {180, 195, 200, 205}
StdVals == {0, 5, 20}

VARIABLES op, args, out
vars == <<op, args, out>>

Init == op = "idle" /\ args = [none |-> 0] /\ out = 0

\* Every prediction call is an independent computation over its supplied
\* arguments: each action is one call made from the initial state.
Idle == op = "idle"

\* hypothetical.main, steps 3-4: stats of the recent sample, then the sweep
Sweep ==
    Idle /\
    \E hist \in Hists, mean \in Means, ctx \in Contexts, ou \in Directions,
       lmin \in LineMins :
    \E lmax \in LineMaxs(lmin) :
      LET std == RecentStats(hist)[2]
          inj == compute_injury_usage_impact(ctx.inj)
          rest == get_rest_factor(ctx.rk, ctx.days)
      IN /\ op' = "sweep"
         /\ args' = [hist |-> hist, mean |-> mean, std |-> std, ctx |-> ctx,
                     inj |-> inj, rest |-> rest, ou |-> ou, lmin |-> lmin, lmax |-> lmax]
         /\ out' = generate_probabilities(mean, std, hist, ctx.off, ctx.pace, ctx.def,
                                          inj, rest, 1000, ou, lmin, lmax)

\* tempCodeRunnerFile.main, steps 4-12
SingleLine ==
    Idle /\
    \E hist \in ShortSeqs, baseline \in Baselines, ctx \in Contexts,
       line \in Lines, ou \in Directions, sc \in VALID_STATS, opp \in OppAbbrevs,
       games \in H2HLogs :
      LET rd == compute_recent_distribution(SubSeq(hist, 1, IF Len(hist) < RECENT_LOOKBACK THEN Len(hist) ELSE RECENT_LOOKBACK))
          inj == compute_injury_usage_impact_tcr(ctx.inj)
          h2h_means == compute_head_to_head(games, opp)
          h2h == H2HMeanTcr(h2h_means, sc, baseline)
          blend == blend_mean_tcr(baseline, rd[1], h2h, inj)
          praw == calc_prob(blend, rd[2], line, ou)
      IN /\ op' = "single"
         /\ args' = [hist |-> hist, baseline |-> baseline, ctx |-> ctx, inj |-> inj,
                     recent |-> rd[1], h2h |-> h2h, sc |-> sc, opp |-> opp, games |-> games,
                     h2h_games |-> H2HGamesTcr(games, opp),
                     mean |-> blend, std |-> rd[2], line |-> line, ou |-> ou]
         /\ out' = SingleFinal(praw, ctx.off, ctx.pace, ctx.def)

EmpiricalFn ==
    Idle /\
    \E vals \in Hists \ {<<>>}, line \in Lines, ou \in Directions :
      /\ op' = "empirical"
      /\ args' = [vals |-> vals, line |-> line, ou |-> ou]
      /\ out' = empirical_prob(vals, line, ou)

GaussFn ==
    Idle /\
    \E mean \in Means \cup Baselines, std \in StdVals, line \in Lines, ou \in Directions :
      /\ op' = "gauss"
      /\ args' = [mean |-> mean, std |-> std, line |-> line, ou |-> ou]
      /\ out' = <<gauss_prob(mean, std, line, ou), calc_prob(mean, std, line, ou)>>

RestFn ==
    Idle /\
    \E rk \in RestKinds, days \in Days :
      /\ op' = "rest"
      /\ args' = [rk |-> rk, days |-> days]
      /\ out' = get_rest_factor(rk, days)

InjuryFn ==
    Idle /\
    \E l \in InjuryLists :
      /\ op' = "injury"
      /\ args' = [inj |-> l]
      /\ out' = <<compute_injury_usage_impact(l), compute_injury_usage_impact_tcr(l)>>

\* hypothetical.main steps 3 (stat choice) to the blend
Blend ==
    Idle /\
    \E team \in Teams, sc \in VALID_STATS, base \in BaseRecs, opp \in OppAbbrevs,
       injl \in BlendInjuries :
    \E log \in Logs(team) :
      /\ op' = "blend"
      /\ args' = [team |-> team, log |-> log, sc |-> sc, base |-> base, opp |-> opp, inj |-> injl]
      /\ out' = BlendOf(log, sc, base, opp, injl)

Letters == {"P", "R", "A"}
StatInputs == UNION {[1..n -> Letters] : n \in 1..3}
PromptBase == [PTS |-> 253, REB |-> 51, AST |-> 70]

\* prompt_stat: c in valid returns c, anything else re-prompts; main then
\* sums base_reg and each game's values over the letters of c
PromptStat ==
    Idle /\
    \E c \in StatInputs :
      /\ op' = "promptstat"
      /\ args' = [c |-> c]
      /\ out' = IF c \in VALID_STATS
                THEN [accepted |-> TRUE, baseline |-> SumLetters(PromptBase, c),
                      game |-> SumLetters(Game("LAL", "BOS", 30), c)]
                ELSE [accepted |-> FALSE, baseline |-> 0, game |-> 0]

MaxDay == 33
DayNums == 28..MaxDay

\* get_rest_factor(fetcher, pid) at wall-clock day now; the player's last
\* regular-season and playoff games were on days reg and po
RestClock ==
    Idle /\
    \E reg \in DayNums \cup {Absent}, po \in DayNums \cup {Absent}, now \in DayNums :
      /\ reg # Absent => now >= reg
      /\ po # Absent => now >= po
      /\ op' = "restclock"
      /\ args' = [reg |-> reg, po |-> po, now |-> now]
      /\ out' = get_rest_factor_clock(reg, now)

Next == PromptStat \/ RestClock \/ Blend \/ Sweep \/ SingleLine \/ EmpiricalFn \/ GaussFn \/ RestFn \/ InjuryFn

Spec == Init /\ [][Next]_vars


(***************************************************************************)
(* Properties                                                              *)
(***************************************************************************)

\* unclamped product of a raw probability with the sweep's factors
SweepChain(a, raw) ==
    LET f == Factors(a.ctx.off, a.ctx.pace, a.ctx.def)
    IN Mul(Mul(Mul(Mul(Mul(Mul(raw, f[1]), f[2]), f[3]), a.inj), a.rest), 1000)
SweepProduct(a, line) == SweepChain(a, RawProb(a.mean, a.std, a.hist, line, a.ou))

\* C1: every probability of the sweep's list, and the single-line
\* predictor's probability, lies in [0, 1]; out-of-range products are clamped.
C1_ClampInvariant ==
    /\ op = "sweep" => \A i \in 1..Len(out) : out[i][2] \in 0..Scale
    /\ op = "single" => out \in 0..Scale

C1_Witness ==
    /\ op = "sweep"
    /\ \E i \in 1..Len(out) : SweepProduct(args, out[i][1]) > Scale


Descending(l) == \A i \in 1..(Len(l) - 1) : l[i][2] >= l[i + 1][2]

\* C2: the sweep's list is sorted by probability descending for over and
\* for under alike.
C2_SortedDescending == op = "sweep" => Descending(out)

\* C3: for integer bounds min <= max the sweep returns exactly max-min+1
\* entries, one per integer line of [min, max], each clamped, sorted
\* descending by probability.
IntegerBounds(a) == a.lmin % Q = 0 /\ a.lmax % Q = 0 /\ a.lmin <= a.lmax
C3_InclusiveRange ==
    (op = "sweep" /\ IntegerBounds(args)) =>
        /\ Len(out) = (args.lmax - args.lmin) \div Q + 1
        /\ {out[i][1] : i \in 1..Len(out)} = {args.lmin + Q * k : k \in 0..((args.lmax - args.lmin) \div Q)}
        /\ \A i \in 1..Len(out) : out[i][2] \in 0..Scale
        /\ Descending(out)

\* C4: with at least MIN_EMPIRICAL sample values the raw probability of
\* every line is the empirical one and the blended mean/std do not matter;
\* with fewer it is the Gaussian one. The single-line predictor's sample
\* (at most RECENT_LOOKBACK games) is always below the threshold, and its
\* raw probability is the Gaussian one.
C4_EstimatorPolicy ==
    /\ op = "sweep" =>
         /\ \A i \in 1..Len(out) :
              out[i][2] = Clamp(SweepChain(args,
                             IF Len(args.hist) >= MIN_EMPIRICAL
                             THEN empirical_prob(args.hist, out[i][1], args.ou)
                             ELSE gauss_prob(args.mean, args.std, out[i][1], args.ou)))
         /\ Len(args.hist) >= MIN_EMPIRICAL =>
              \A m \in Means, sd \in StdVals \cup {NaN} :
                 generate_probabilities(m, sd, args.hist, args.ctx.off, args.ctx.pace,
                     args.ctx.def, args.inj, args.rest, 1000, args.ou, args.lmin, args.lmax) = out
    /\ op = "single" =>
         /\ Len(args.hist) < MIN_EMPIRICAL
         /\ out = SingleFinal(calc_prob(args.mean, args.std, args.line, args.ou),
                              args.ctx.off, args.ctx.pace, args.ctx.def)

C4_Witness ==
    /\ op = "sweep"
    /\ Len(args.hist) = MIN_EMPIRICAL
    /\ Len(out) > 0
    /\ \E i \in 1..Len(out) :
         empirical_prob(args.hist, out[i][1], args.ou)
           # gauss_prob(args.mean, args.std, out[i][1], args.ou)

RECURSIVE CountStrict(_, _, _)
CountStrict(v, line, ou) ==
    IF v = <<>> THEN 0
    ELSE (IF (ou = "O" /\ Head(v) * Q > line) \/ (ou = "U" /\ Head(v) * Q < line)
          THEN 1 ELSE 0) + CountStrict(Tail(v), line, ou)

\* C5: empirical_prob is the number of values strictly above (over) or
\* strictly below (under) the line divided by the sample size; the sample
\* 10,12,..,28 with line 18 over gives 0.5.
C5_EmpiricalFraction ==
    op = "empirical" =>
      /\ out = (CountStrict(args.vals, args.line, args.ou) * Scale) \div Len(args.vals)
      /\ (args.vals = SpecSample /\ args.line = 180 /\ args.ou = "O") => out = 500

C5_Witness ==
    op = "empirical" /\ args.vals = SpecSample /\ args.line = 180 /\ args.ou = "O"

Strictly(mean, line, ou) == (ou = "O" /\ mean > line) \/ (ou = "U" /\ mean < line)

\* C6: with std <= 0, gauss_prob and calc_prob give 1.0 when the mean
\* strictly satisfies the direction and 0.0 otherwise (mean = line too);
\* mean 20, std 0: line 15 over gives 1.0, line 25 over gives 0.0.
C6_DegenerateGaussian ==
    /\ op = "gauss" /\ args.std <= 0 =>
         /\ out[1] = IF Strictly(args.mean, args.line, args.ou) THEN Scale ELSE 0
         /\ out[2] = IF Strictly(args.mean, args.line, args.ou) THEN Scale ELSE 0
    /\ op = "gauss" =>
         /\ gauss_prob(200, 0, 150, "O") = Scale /\ gauss_prob(200, 0, 250, "O") = 0
         /\ calc_prob(200, 0, 150, "O") = Scale /\ calc_prob(200, 0, 250, "O") = 0

C6_Witness ==
    op = "gauss" /\ args.std = 0 /\ args.mean = args.line /\ args.ou = "O"

\* C7: with std > 0 the over and under Gaussian probabilities of the same
\* line sum to 1.
C7_GaussComplement ==
    op = "gauss" /\ args.std > 0 =>
      /\ gauss_prob(args.mean, args.std, args.line, "O")
           + gauss_prob(args.mean, args.std, args.line, "U") = Scale
      /\ calc_prob(args.mean, args.std, args.line, "O")
           + calc_prob(args.mean, args.std, args.line, "U") = Scale

C7_Witness ==
    op = "gauss" /\ args.std > 0 /\ out[1] \notin {0, Scale} /\ args.mean # args.line

\* C8: the rest multiplier is 0.90 for 0 days since the last played game,
\* 0.98 for 1 day, and 1.02 for 2 or more days, no recent game, or an
\* unparseable date.
C8_RestMultiplier ==
    op = "rest" =>
      out = IF args.rk = "date" /\ args.days = 0 THEN 900
            ELSE IF args.rk = "date" /\ args.days = 1 THEN 980
            ELSE 1020

C8_Witness == op = "rest" /\ args.rk = "date" /\ args.days = 2

RECURSIVE ResolvedUsage(_)
ResolvedUsage(l) ==
    IF l = <<>> THEN 0
    ELSE (IF Head(l).res = "usg" THEN Head(l).usg ELSE 0) + ResolvedUsage(Tail(l))

\* C9: the injury multiplier is 1 + 0.01 * (sum of the usage% of every
\* injured player whose aggregate resolves); failures are skipped. Stated
\* of both implementations (out[1]: hypothetical.py, out[2]:
\* tempCodeRunnerFile.py).
C9_InjuryMultiplier ==
    op = "injury" =>
      /\ out[1] = Scale + (ResolvedUsage(args.inj) * Scale) \div INJ_DIV
      /\ out[2] = Scale + (ResolvedUsage(args.inj) * Scale) \div INJ_DIV

Bump(l, i, d) == [l EXCEPT ![i] = [res |-> "usg", usg |-> l[i].usg + d]]

\* C10: raising one injured player's usage% (others fixed) never lowers the
\* injury multiplier, in both implementations.
C10_InjuryMonotone ==
    op = "injury" =>
      \A i \in 1..Len(args.inj), d \in {1, 5} :
        args.inj[i].res = "usg" =>
          /\ compute_injury_usage_impact(Bump(args.inj, i, d)) >= out[1]
          /\ compute_injury_usage_impact_tcr(Bump(args.inj, i, d)) >= out[2]

C10_Witness ==
    op = "injury" /\ Len(args.inj) = 2 /\ args.inj[1].res = "usg" /\ args.inj[2].res = "fail"
      /\ out[2] > Scale

SpecBlend(b, r, h, inj) == (35 * b + 30 * r + 20 * h + 15 * ((b * inj) \div Scale)) \div 100

\* C11 (original): the blended mean is 0.35 baseline + 0.30 recent + 0.20 h2h
\* + 0.15 baseline * injury multiplier in the sweep and in the single-line
\* predictor.
C11_BlendEveryMode ==
    /\ op = "blend" => out.blend = SpecBlend(out.baseline, out.recent_mean, out.h2h_mean, out.inj)
    /\ op = "single" => args.mean = SpecBlend(args.baseline, args.recent, args.h2h, args.inj)

\* C11 (amended): the sweep blends with 0.35/0.30/0.20/0.15; the
\* single-line predictor blends with 0.4/0.3/0.2/0.1.
C11_BlendWeights ==
    /\ op = "blend" => out.blend = SpecBlend(out.baseline, out.recent_mean, out.h2h_mean, out.inj)
    /\ op = "single" =>
         args.mean = (40 * args.baseline + 30 * args.recent + 20 * args.h2h
                        + 10 * ((args.baseline * args.inj) \div Scale)) \div 100

C11_Witness ==
    /\ op = "blend"
    /\ out.baseline # out.recent_mean /\ out.recent_mean # out.h2h_mean
    /\ out.baseline # out.h2h_mean /\ out.h2h_vals # <<>>

\* C12 (original): 0.35 + 0.30 + 0.20 + 0.15 == 1.00 holds for the weights
\* as the program computes with them (IEEE doubles).
C12_WeightSumFloat ==
    op = "blend" => DAdd(DAdd(DAdd(D_baseline, D_recent), D_h2h), D_injury) = D_one

\* C12 (amended): the weights sum to 1 in exact decimal arithmetic, so the
\* blend of equal inputs x with injury multiplier 1 is x up to rounding.
C12_WeightSumExact ==
    op = "blend" =>
      /\ W_baseline + W_recent + W_h2h + W_injury = Scale
      /\ blend_mean(out.baseline, out.baseline, out.baseline, Scale) = out.baseline

C12_Witness == op = "blend" /\ out.baseline > 0

\* sd (tenths) is floor(sqrt(sample variance with divisor n - 1)), or 0 for n <= 1
IsSampleStd(sd, v) ==
    LET n == Len(v)
        num == Q * Q * (n * SumSeq(SqSeq(v)) - SumSeq(v) * SumSeq(v))
    IN IF n <= 1 THEN sd = 0
       ELSE sd \in Nat /\ sd * sd * (n * (n - 1)) <= num /\ num < (sd + 1) * (sd + 1) * (n * (n - 1))

\* C13: the blended std is the n-1 sample standard deviation of the
\* recent-game values, and 0 when there are at most one value (sweep and
\* single-line).
C13_BlendStd ==
    /\ op = "blend" => IsSampleStd(out.std, out.hist_vals)
    /\ op = "single" => IsSampleStd(args.std, Take(args.hist, RECENT_LOOKBACK))

\* C14: the blend's recent-form mean is the mean over the last
\* RECENT_GAMES = 5 games, while the estimator's sample holds the last
\* 4 * RECENT_GAMES = 20 games.
C14_RecentWindow ==
    op = "blend" =>
      LET all == HistVals(args.log, args.sc)
          last5 == Take(all, 5)
      IN /\ out.recent_mean = (IF last5 = <<>> THEN 0 ELSE (SumSeq(last5) * Q) \div Len(last5))
         /\ out.hist_vals = Take(all, 20)

\* the franchise each opponent abbreviation of select_team names
ChosenTeam == [ab \in OppAbbrevs |-> IF ab = "SA" THEN "SAS" ELSE ab]

\* the games of a log whose opponent is the chosen opponent team
VsOpp(log, opp) == LET T(g) == g.opp = ChosenTeam[opp] IN SelectSeq(log, T)
H2HMeanOver(games, sc, baseline) ==
    LET v == HistVals(Take(games, 5), sc)
    IN IF v = <<>> THEN baseline ELSE (SumSeq(v) * Q) \div Len(v)

\* C15: the h2h mean is the mean of the stat total over the (at most 5)
\* most recent games of the player's log against the opponent team, and the
\* baseline when there is no such game.
C15_H2HMeanLog ==
    op = "blend" => out.h2h_mean = H2HMeanOver(VsOpp(args.log, args.opp), args.sc, out.baseline)

OffF(c) == IF c.off = Absent THEN Scale ELSE (c.off * Scale) \div 110
PaceF(c) == IF c.pace = Absent THEN Scale ELSE (c.pace * Scale) \div 100
DefF(c) == IF c.def = Absent THEN Scale ELSE (110 * Scale) \div c.def

SixFactor(raw, c, inj, rest) ==
    Clamp(Mul(Mul(Mul(Mul(Mul(Mul(raw, OffF(c)), PaceF(c)), DefF(c)), inj), rest), Scale))

\* C16 (original): final = clamp(raw * off * pace * def * injury * rest *
\* home) with off = OFF_RATING/110, pace = PACE/100, def = 110/DEF_RATING
\* (1.0 when missing) and home = 1.0, in the sweep and in the single-line
\* predictor.
C16_ChainEveryMode ==
    /\ op = "sweep" =>
         \A i \in 1..Len(out) :
           out[i][2] = SixFactor(RawProb(args.mean, args.std, args.hist, out[i][1], args.ou),
                                 args.ctx, args.inj, args.rest)
    /\ op = "single" =>
         out = SixFactor(calc_prob(args.mean, args.std, args.line, args.ou), args.ctx,
                         args.inj, get_rest_factor(args.ctx.rk, args.ctx.days))

\* C16 (amended): the sweep applies all six factors and clamps once; the
\* single-line predictor applies only off * pace and def, then clamps once.
C16_ChainByMode ==
    /\ op = "sweep" =>
         \A i \in 1..Len(out) :
           out[i][2] = SixFactor(RawProb(args.mean, args.std, args.hist, out[i][1], args.ou),
                                 args.ctx, args.inj, args.rest)
    /\ op = "single" =>
         out = Clamp(Mul(Mul(calc_prob(args.mean, args.std, args.line, args.ou),
                             Mul(OffF(args.ctx), PaceF(args.ctx))), DefF(args.ctx)))

C16_Witness ==
    /\ op = "sweep" /\ args.rest # Scale /\ args.ctx.off # Absent
    /\ \E i \in 1..Len(out) : out[i][2] \notin {0, Scale}

\* C17: identical supplied inputs give identical outputs; no hidden input
\* such as the wall-clock time influences the result.
C17_NoClock ==
    op = "restclock" =>
      \A now2 \in DayNums :
        (args.reg = Absent \/ now2 >= args.reg) /\ (args.po = Absent \/ now2 >= args.po) =>
            get_rest_factor_clock(args.reg, now2) = out

LastPlayed(r, p) == IF r = Absent THEN p ELSE IF p = Absent THEN r ELSE IF r > p THEN r ELSE p

\* C20: the rest multiplier is computed from the most recent played game of
\* any season type (a playoff game counts).
C20_RestAnySeason ==
    op = "restclock" =>
      LET last == LastPlayed(args.reg, args.po)
      IN out = IF last = Absent THEN 1020
               ELSE IF args.now - last = 0 THEN 900
               ELSE IF args.now - last = 1 THEN 980 ELSE 1020

\* C18: with empty or one-game history, zero variance or absent aggregates
\* the probability computations complete through their fallbacks and never
\* raise (no division fault).
C18_NoRaise ==
    /\ op = "sweep" => \A i \in 1..Len(out) : out[i][2] # Raise
    /\ op = "single" => out # Raise
    /\ op = "blend" => out.blend # Raise /\ out.h2h_mean # Raise

C18_Witness ==
    /\ op = "single" /\ Len(args.hist) = 1 /\ args.std = 0
    /\ args.ctx.off = Absent /\ args.ctx.def = Absent

Rank(c) == CASE c = "P" -> 1 [] c = "R" -> 2 [] OTHER -> 3
LetterSet(c) == {c[i] : i \in 1..Len(c)}
SetSum(x, S) == (IF "P" \in S THEN Get(x.PTS, 0) ELSE 0) + (IF "R" \in S THEN Get(x.REB, 0) ELSE 0)
                  + (IF "A" \in S THEN Get(x.AST, 0) ELSE 0)

\* C19 (original): every non-empty P/R/A selection, in any order and with
\* duplicates collapsed, is accepted and sums each chosen stat once.
C19_AnyOrderAccepted ==
    op = "promptstat" =>
      /\ out.accepted
      /\ out.baseline = SetSum(PromptBase, LetterSet(args.c))
      /\ out.game = SetSum(Game("LAL", "BOS", 30), LetterSet(args.c))

\* C19 (amended): exactly the selections written in P, R, A order without
\* repeats are accepted, and each accepted one sums each chosen stat once.
C19_CanonicalAccepted ==
    op = "promptstat" =>
      /\ out.accepted <=> \A i, j \in 1..Len(args.c) : i < j => Rank(args.c[i]) < Rank(args.c[j])
      /\ out.accepted =>
           /\ out.baseline = SetSum(PromptBase, LetterSet(args.c))
           /\ out.game = SetSum(Game("LAL", "BOS", 30), LetterSet(args.c))

C19_Witness == op = "promptstat" /\ out.accepted /\ Len(args.c) = 3


\* C21: in the single-line predictor, with a single stat chosen and at least
\* one head-to-head game, the h2h mean in the blend is that stat's mean over
\* the head-to-head games rather than the baseline.
C21_H2HMeanOfStat ==
    (op = "single" /\ Len(args.sc) = 1 /\ args.h2h_games # <<>>) =>
        args.h2h = MeanT([i \in 1..Len(args.h2h_games) |-> args.h2h_games[i][LETTER_MAP[args.sc[1]]]])

\* C22: a game is head-to-head only when its opponent is the chosen
\* opponent team, in both the sweep and the single-line predictor.
C22_H2HOnlyOpponent ==
    /\ op = "blend" => \A i \in 1..Len(out.h2h_games) : out.h2h_games[i].opp = ChosenTeam[args.opp]
    /\ op = "single" => \A i \in 1..Len(args.h2h_games) : args.h2h_games[i].opp = ChosenTeam[args.opp]

\* C23: for line_min <= line_max (any floats) every evaluated line lies
\* within [line_min, line_max].
C23_LinesWithinBounds ==
    (op = "sweep" /\ args.lmin <= args.lmax) =>
        \A i \in 1..Len(out) : args.lmin <= out[i][1] /\ out[i][1] <= args.lmax

\* C24: with exactly one game in the sample the ddof=1 std is NaN, and the
\* clamp makes every line's probability 1.0, for over and for under.
C24_OneGameAllOnes ==
    (op = "sweep" /\ Len(args.hist) = 1) =>
        /\ IsNaN(args.std)
        /\ \A i \in 1..Len(out) : out[i][2] = Scale

C24_Witness ==
    op = "sweep" /\ Len(args.hist) = 1 /\ args.ou = "U" /\ Len(out) > 1
    /\ \E i \in 1..Len(out) : out[i][1] < args.mean

\* C25: on the empirical path the over and under probabilities of one line,
\* (arr > line).sum() / len(arr) and (arr < line).sum() / len(arr), sum to at
\* most 1, with equality exactly when no sample value equals the line.
Tie(vals, line) == \E i \in 1..Len(vals) : vals[i] * Q = line
C25_EmpiricalOverUnder ==
    op = "empirical" =>
        LET n == Len(args.vals)
            s == CountIf(args.vals, args.line, "O") + CountIf(args.vals, args.line, "U")
        IN /\ s <= n
           /\ (s = n <=> ~Tie(args.vals, args.line))

C25_Witness ==
    op = "empirical" /\ Tie(args.vals, args.line) /\ Len(args.vals) >= MIN_EMPIRICAL
    /\ CountIf(args.vals, args.line, "O") > 0 /\ CountIf(args.vals, args.line, "U") > 0

\* C26: with the sample, blended mean/std and context fixed, the final over
\* probability is non-increasing and the final under probability
\* non-decreasing in the line, and the over-sweep lists its lines in
\* ascending order.
C26_MonotoneInLine ==
    op = "sweep" =>
        /\ \A i, j \in 1..Len(out) :
              out[i][1] < out[j][1] =>
                  IF args.ou = "O" THEN out[i][2] >= out[j][2] ELSE out[i][2] <= out[j][2]
        /\ args.ou = "O" => \A i \in 1..(Len(out) - 1) : out[i][1] < out[i + 1][1]

C26_Witness ==
    op = "sweep" /\ args.ou = "O" /\ Len(out) > 2 /\ out[1][2] > out[Len(out)][2]
    /\ out[1][2] < Scale

====
